---- MODULE Spec2Model ----
(***************************************************************************)
(* tethne.readers.mallet: load and its four parser stages                  *)
(* (_handle_top_doc, _handle_word_top, _handle_topic_keys,                 *)
(* _handle_metadata), as a state machine over the rows csv.reader yields.  *)
(***************************************************************************)
EXTENDS Integers, Sequences, FiniteSets, TLC

(***************************************************************************)
(* Bounds of the model.                                                    *)
(***************************************************************************)
MaxRows == 2      \* data rows of a topic-document, topic-keys or metadata file
MaxWords == 3     \* rows of a word-topic file
MaxZ == 2         \* the caller's Z ranges over 1..MaxZ

(***************************************************************************)
(* float / numpy.float64: IEEE-754 binary64, unsigned.  A positive finite  *)
(* value is m * 2^(e-52) with the 53-bit significand m = hi * 2^26 + lo,   *)
(* 2^26 <= hi < 2^27, 0 <= lo < 2^26.  The weight and count cells of the   *)
(* inputs are unsigned, so no sign is carried.                             *)
(***************************************************************************)
Limb == 67108864
HalfLimb == 33554432
SigBits == 53

FZero == [k |-> "zero"]
FNaN == [k |-> "nan"]
FInf == [k |-> "inf"]
FNum(e, hi, lo) == [k |-> "num", e |-> e, hi |-> hi, lo |-> lo]
FOne == FNum(0, Limb, 0)

\* two-limb naturals <<hi, lo>>
BGe(a, b) == a[1] > b[1] \/ (a[1] = b[1] /\ a[2] >= b[2])
BSub(a, b) == IF a[2] >= b[2] THEN <<a[1] - b[1], a[2] - b[2]>>
              ELSE <<a[1] - b[1] - 1, (a[2] + Limb) - b[2]>>
BAdd(a, b) == IF a[2] + b[2] >= Limb THEN <<a[1] + b[1] + 1, (a[2] + b[2]) - Limb>>
              ELSE <<a[1] + b[1], a[2] + b[2]>>
BDbl(a, bit) == <<(2 * a[1]) + (IF a[2] >= HalfLimb THEN 1 ELSE 0), ((2 * a[2]) % Limb) + bit>>
BInc(a) == IF a[2] + 1 = Limb THEN <<a[1] + 1, 0>> ELSE <<a[1], a[2] + 1>>

\* Round to nearest, ties to even.  q is the truncated 53-bit significand,
\* up: the discarded part exceeds half a unit in the last place, tie: it
\* equals half a unit.
FRound(e, q, up, tie) ==
  LET r == IF up \/ (tie /\ q[2] % 2 = 1) THEN BInc(q) ELSE q
  IN IF r[1] = 2 * Limb THEN FNum(e + 1, Limb, 0) ELSE FNum(e, r[1], r[2])

\* restoring division: one step gives one quotient bit and leaves the
\* remainder doubled; s = <<R, Y, q>>.  53 steps give the significand.
DivStep(s) ==
  LET ge == BGe(s[1], s[2])
  IN <<BDbl(IF ge THEN BSub(s[1], s[2]) ELSE s[1], 0), s[2], BDbl(s[3], IF ge THEN 1 ELSE 0)>>

\* n steps; the test on q keeps every step's result evaluated before the next
RECURSIVE DivLoop(_, _)
DivLoop(s, n) ==
  IF n = 0 \/ s[3][1] < 0 THEN s ELSE DivLoop(DivStep(s), n - 1)

\* a / b on float64 (numpy's true_divide; an invalid or zero division gives
\* nan or inf with a RuntimeWarning, it does not raise)
FDiv(a, b) ==
  IF a.k = "nan" \/ b.k = "nan" THEN FNaN
  ELSE IF a.k = "inf" THEN (IF b.k = "inf" THEN FNaN ELSE FInf)
  ELSE IF b.k = "inf" THEN FZero
  ELSE IF b.k = "zero" THEN (IF a.k = "zero" THEN FNaN ELSE FInf)
  ELSE IF a.k = "zero" THEN FZero
  ELSE LET X == <<a.hi, a.lo>>
           Y == <<b.hi, b.lo>>
           big == BGe(X, Y)
           res == DivLoop(<<IF big THEN X ELSE BDbl(X, 0), Y, <<0, 0>>>>, SigBits)
       IN FRound(IF big THEN a.e - b.e ELSE (a.e - b.e) - 1, res[3],
                 res[1] /= Y /\ BGe(res[1], Y), res[1] = Y)

Pow2 == [n \in 0..30 |-> CASE n = 0 -> 1 [] n = 1 -> 2 [] n = 2 -> 4 [] n = 3 -> 8
  [] n = 4 -> 16 [] n = 5 -> 32 [] n = 6 -> 64 [] n = 7 -> 128 [] n = 8 -> 256
  [] n = 9 -> 512 [] n = 10 -> 1024 [] n = 11 -> 2048 [] n = 12 -> 4096
  [] n = 13 -> 8192 [] n = 14 -> 16384 [] n = 15 -> 32768 [] n = 16 -> 65536
  [] n = 17 -> 131072 [] n = 18 -> 262144 [] n = 19 -> 524288 [] n = 20 -> 1048576
  [] n = 21 -> 2097152 [] n = 22 -> 4194304 [] n = 23 -> 8388608 [] n = 24 -> 16777216
  [] n = 25 -> 33554432 [] n = 26 -> 67108864 [] n = 27 -> 134217728
  [] n = 28 -> 268435456 [] n = 29 -> 536870912 [] n = 30 -> 1073741824]

\* B shifted right by d bits: <<B div 2^d, guard bit, sticky bit>>
Shr(B, d) ==
  IF d = 0 THEN <<B, 0, 0>>
  ELSE IF d <= 26
    THEN LET dr == B[2] % Pow2[d]
         IN << <<B[1] \div Pow2[d], (B[2] \div Pow2[d]) + ((B[1] % Pow2[d]) * Pow2[26 - d])>>,
               dr \div Pow2[d - 1], IF dr % Pow2[d - 1] /= 0 THEN 1 ELSE 0 >>
  ELSE IF d <= 55
    THEN LET dr == B[1] % Pow2[d - 26]
         IN << <<0, B[1] \div Pow2[d - 26]>>,
               dr \div Pow2[d - 27], IF dr % Pow2[d - 27] /= 0 \/ B[2] /= 0 THEN 1 ELSE 0 >>
  ELSE << <<0, 0>>, 0, 1 >>

FAddNum(a, b) ==
  LET sh == Shr(<<b.hi, b.lo>>, a.e - b.e)
      S == BAdd(<<a.hi, a.lo>>, sh[1])
      carry == S[1] >= 2 * Limb
      one == Shr(S, 1)
      fin == IF carry THEN <<one[1], one[2], IF sh[2] = 1 THEN 1 ELSE sh[3]>> ELSE <<S, sh[2], sh[3]>>
  IN FRound(IF carry THEN a.e + 1 ELSE a.e, fin[1],
            fin[2] = 1 /\ fin[3] = 1, fin[2] = 1 /\ fin[3] = 0)

\* a + b on float64
FAdd(a, b) ==
  IF a.k = "nan" \/ b.k = "nan" THEN FNaN
  ELSE IF a.k = "inf" \/ b.k = "inf" THEN FInf
  ELSE IF a.k = "zero" THEN b
  ELSE IF b.k = "zero" THEN a
  ELSE IF a.e >= b.e THEN FAddNum(a, b) ELSE FAddNum(b, a)

\* float(n) of an int 0 <= n < 2^31: exact
FromNat(n) ==
  IF n = 0 THEN FZero
  ELSE LET e == CHOOSE i \in 0..30 : Pow2[i] <= n /\ (i = 30 \/ n < Pow2[i + 1])
       IN IF e <= 26 THEN FNum(e, n * Pow2[26 - e], 0)
          ELSE FNum(e, n \div Pow2[e - 26], (n % Pow2[e - 26]) * Pow2[52 - e])

(***************************************************************************)
(* Cells are sequences of characters.  int() and float() of a cell give    *)
(* [ok |-> TRUE, v |-> value] or, on a ValueError, [ok |-> FALSE].         *)
(***************************************************************************)
Digits == {"0", "1", "2", "3", "4", "5", "6", "7", "8", "9"}
DigitVal == [c \in Digits |->
  CASE c = "0" -> 0 [] c = "1" -> 1 [] c = "2" -> 2 [] c = "3" -> 3 [] c = "4" -> 4
    [] c = "5" -> 5 [] c = "6" -> 6 [] c = "7" -> 7 [] c = "8" -> 8 [] c = "9" -> 9]

RECURSIVE DecVal(_, _)
DecVal(cs, acc) == IF cs = <<>> THEN acc ELSE DecVal(Tail(cs), (10 * acc) + DigitVal[Head(cs)])

RECURSIVE Pow10(_)
Pow10(n) == IF n = 0 THEN 1 ELSE 10 * Pow10(n - 1)

AllDigits(cs) == cs /= <<>> /\ \A i \in 1..Len(cs) : cs[i] \in Digits

Bad == [ok |-> FALSE]
Good(v) == [ok |-> TRUE, v |-> v]

\* int(cell): an optional minus sign and decimal digits
ParseInt(cell) ==
  IF AllDigits(cell) THEN Good(DecVal(cell, 0))
  ELSE IF cell /= <<>> /\ Head(cell) = "-" /\ AllDigits(Tail(cell))
       THEN Good(0 - DecVal(Tail(cell), 0))
  ELSE Bad

\* float(cell): unsigned decimal literal, digits with at most one point
ParseFloat(cell) ==
  LET dots == {i \in 1..Len(cell) : cell[i] = "."}
  IN IF AllDigits(cell) THEN Good(FromNat(DecVal(cell, 0)))
     ELSE IF Cardinality(dots) = 1
       THEN LET p == CHOOSE i \in dots : TRUE
                ip == SubSeq(cell, 1, p - 1)
                fp == SubSeq(cell, p + 1, Len(cell))
            IN IF (ip \o fp) /= <<>> /\ AllDigits(ip \o fp)
               THEN Good(FDiv(FromNat(DecVal(ip \o fp, 0)), FromNat(Pow10(Len(fp)))))
               ELSE Bad
     ELSE Bad

\* str.split(sep) on one separator character
RECURSIVE SplitOn(_, _, _)
SplitOn(cs, sep, cur) ==
  IF cs = <<>> THEN <<cur>>
  ELSE IF Head(cs) = sep THEN <<cur>> \o SplitOn(Tail(cs), sep, <<>>)
  ELSE SplitOn(Tail(cs), sep, Append(cur, Head(cs)))

\* str.split(): runs of blanks separate, empty words are dropped
RECURSIVE SplitWS(_, _)
SplitWS(cs, cur) ==
  IF cs = <<>> THEN (IF cur = <<>> THEN <<>> ELSE <<cur>>)
  ELSE IF Head(cs) = " " THEN (IF cur = <<>> THEN <<>> ELSE <<cur>>) \o SplitWS(Tail(cs), <<>>)
  ELSE SplitWS(Tail(cs), Append(cur, Head(cs)))

(***************************************************************************)
(* dict: a function on the set of its keys.                                *)
(***************************************************************************)
EmptyDict == [k \in {} |-> 0]
\* a dict that keeps the first value stored under a key
PutFirst(dct, k, v) ==
  [x \in (DOMAIN dct) \cup {k} |-> IF x \in DOMAIN dct THEN dct[x] ELSE v]

\* dct[k] = v
Put(dct, k, v) == [x \in (DOMAIN dct) \cup {k} |-> IF x = k THEN v ELSE dct[x]]

\* the orders in which iteritems() may yield the keys (the order of a dict is
\* unspecified)
Orders(S) == {o \in [1..Cardinality(S) -> S] : \A a, b \in DOMAIN o : a /= b => o[a] /= o[b]}

(***************************************************************************)
(* numpy: np.zeros, basic indexing with negative indices, np.sum, /=.      *)
(***************************************************************************)
Zeros(R, C) == [r \in 0..(R - 1) |-> [c \in 0..(C - 1) |-> FZero]]

\* indexing that wraps every index around the axis and never raises
NpIdxWrap(i, n) == i % n

\* the position an index i selects on an axis of length n, -1 for IndexError
NpIdx(i, n) == IF 0 <= i /\ i < n THEN i
               ELSE IF 0 - n <= i /\ i < 0 THEN i + n
               ELSE 0 - 1

\* np.sum of a row of fewer than 8 elements: added left to right from 0
RECURSIVE RowSum(_, _)
RowSum(row, n) == IF n = 0 THEN FZero ELSE FAdd(RowSum(row, n - 1), row[n - 1])

NpSum(row) == RowSum(row, Cardinality(DOMAIN row))

\* row /= s
DivRow(row, s) == [c \in DOMAIN row |-> FDiv(row[c], s)]

(***************************************************************************)
(* Row conversions.  Each gives [err |-> "None", key, val], or             *)
(* [err |-> the exception raised].  The right-hand side of a subscript     *)
(* assignment is evaluated before the subscript.                           *)
(***************************************************************************)
Drop2(line) == IF Len(line) > 2 THEN SubSeq(line, 3, Len(line)) ELSE <<>>

\* lines 64-69 of _handle_top_doc
NPairs(t) == Len(t) \div 2
TopPair(t, j) == <<ParseInt(t[(2 * j) - 1]), ParseFloat(t[2 * j])>>
TdConvert(line) ==
  LET t == Drop2(line)
      n == NPairs(t)
  IN IF \E j \in 1..n : ~TopPair(t, j)[1].ok \/ ~TopPair(t, j)[2].ok
       THEN [err |-> "ValueError"]
     ELSE IF Len(line) < 2 THEN [err |-> "IndexError"]
     ELSE IF ~ParseInt(line[1]).ok THEN [err |-> "ValueError"]
     ELSE [err |-> "None", key |-> ParseInt(line[1]).v,
           val |-> <<line[2], [j \in 1..n |-> <<TopPair(t, j)[1].v, TopPair(t, j)[2].v>>]>>]

\* lines 92-94 of _handle_word_top.  Python 2.7 evaluates the value of a dict
\* comprehension item before its key.
TokenErr(l) ==
  LET parts == SplitOn(l, ":", <<>>)
  IN IF Len(parts) < 2 THEN "IndexError"
     ELSE IF ~ParseFloat(parts[2]).ok \/ ~ParseInt(parts[1]).ok THEN "ValueError"
     ELSE "None"
TokenKey(l) == ParseInt(SplitOn(l, ":", <<>>)[1]).v
TokenVal(l) == ParseFloat(SplitOn(l, ":", <<>>)[2]).v

RECURSIVE TokenDict(_, _)
TokenDict(toks, tc) ==
  IF toks = <<>> THEN tc
  ELSE TokenDict(Tail(toks), Put(tc, TokenKey(Head(toks)), TokenVal(Head(toks))))

WtConvert(line) ==
  LET toks == Drop2(line)
      bad == {j \in 1..Len(toks) : TokenErr(toks[j]) /= "None"}
  IN IF bad /= {} THEN [err |-> TokenErr(toks[CHOOSE j \in bad : \A m \in bad : j <= m])]
     ELSE IF Len(line) < 2 THEN [err |-> "IndexError"]
     ELSE IF ~ParseInt(line[1]).ok THEN [err |-> "ValueError"]
     ELSE [err |-> "None", key |-> ParseInt(line[1]).v,
           val |-> <<line[2], TokenDict(toks, EmptyDict)>>]

\* line 121 of _handle_topic_keys
TkConvert(l) ==
  IF Len(l) < 2 THEN [err |-> "IndexError"]
  ELSE IF ~ParseFloat(l[2]).ok THEN [err |-> "ValueError"]
  ELSE IF Len(l) < 3 THEN [err |-> "IndexError"]
  ELSE IF ~ParseInt(l[1]).ok THEN [err |-> "ValueError"]
  ELSE [err |-> "None", key |-> ParseInt(l[1]).v,
        val |-> <<ParseFloat(l[2]).v, SplitWS(l[3], <<>>)>>]

\* line 139 of _handle_metadata
MdConvert(l) ==
  IF Len(l) < 2 THEN [err |-> "IndexError"]
  ELSE IF ~ParseInt(l[1]).ok THEN [err |-> "ValueError"]
  ELSE [err |-> "None", key |-> ParseInt(l[1]).v, val |-> l[2]]

(***************************************************************************)
(* The scatter loops.  Each gives [ok |-> TRUE, a |-> the array] or, when  *)
(* a store raises IndexError, [ok |-> FALSE].                              *)
(***************************************************************************)
Store(a, r, c, p) == [a EXCEPT ![r] = [@ EXCEPT ![c] = p]]

\* the scatter with td[d,t] += p in place of td[d,t] = p
RECURSIVE TdScatterDocSum(_, _, _, _, _)
TdScatterDocSum(a, N, Zc, d, tops) ==
  IF tops = <<>> THEN [ok |-> TRUE, a |-> a]
  ELSE IF NpIdx(d, N) < 0 \/ NpIdx(Head(tops)[1], Zc) < 0 THEN [ok |-> FALSE]
  ELSE TdScatterDocSum(Store(a, NpIdx(d, N), NpIdx(Head(tops)[1], Zc),
                             FAdd(a[NpIdx(d, N)][NpIdx(Head(tops)[1], Zc)], Head(tops)[2])),
                       N, Zc, d, Tail(tops))

\* lines 74-75: for t,p in value[1]: td[d,t] = p
RECURSIVE TdScatterDoc(_, _, _, _, _)
TdScatterDoc(a, N, Zc, d, tops) ==
  IF tops = <<>> THEN [ok |-> TRUE, a |-> a]
  ELSE IF NpIdx(d, N) < 0 \/ NpIdx(Head(tops)[1], Zc) < 0 THEN [ok |-> FALSE]
  ELSE TdScatterDoc(Store(a, NpIdx(d, N), NpIdx(Head(tops)[1], Zc), Head(tops)[2]),
                    N, Zc, d, Tail(tops))

\* the scatter with the word index taken modulo the number of columns, so
\* that no word index raises
RECURSIVE WtScatterWordMod(_, _, _, _, _, _)
WtScatterWordMod(a, Zc, W, w, tc, ord) ==
  IF ord = <<>> THEN [ok |-> TRUE, a |-> a]
  ELSE IF NpIdx(Head(ord), Zc) < 0 THEN [ok |-> FALSE]
  ELSE WtScatterWordMod(Store(a, NpIdx(Head(ord), Zc), w % W, tc[Head(ord)]),
                        Zc, W, w, tc, Tail(ord))

\* lines 99-100: for t,p in values[1].iteritems(): wt[t,w] = p, the topics
\* taken in the order ord
RECURSIVE WtScatterWord(_, _, _, _, _, _)
WtScatterWord(a, Zc, W, w, tc, ord) ==
  IF ord = <<>> THEN [ok |-> TRUE, a |-> a]
  ELSE IF NpIdx(Head(ord), Zc) < 0 \/ NpIdx(w, W) < 0 THEN [ok |-> FALSE]
  ELSE WtScatterWord(Store(a, NpIdx(Head(ord), Zc), NpIdx(w, W), tc[Head(ord)]),
                     Zc, W, w, tc, Tail(ord))

\* the normalization that leaves a row whose sum is 0 as it is
NormalizeGuarded(a) ==
  [t \in DOMAIN a |-> IF NpSum(a[t]) = FZero THEN a[t] ELSE DivRow(a[t], NpSum(a[t]))]

\* the normalization that divides a row by its first entry
NormalizeByFirst(a) == [t \in DOMAIN a |-> DivRow(a[t], a[t][0])]

\* lines 103-104: for t in xrange(Z): wt[t,:] /= np.sum(wt[t,:])
Normalize(a) == [t \in DOMAIN a |-> DivRow(a[t], NpSum(a[t]))]

(***************************************************************************)
(* The inputs: what csv.reader yields for the file at each path, a list of *)
(* rows of cells, or no file at that path.                                 *)
(***************************************************************************)
NoFile == [exists |-> FALSE, rows |-> <<>>]
File(rows) == [exists |-> TRUE, rows |-> rows]
NoArg == [given |-> FALSE, file |-> NoFile]
Arg(file) == [given |-> TRUE, file |-> file]

DigitChar == [i \in 0..9 |->
  CASE i = 0 -> "0" [] i = 1 -> "1" [] i = 2 -> "2" [] i = 3 -> "3" [] i = 4 -> "4"
    [] i = 5 -> "5" [] i = 6 -> "6" [] i = 7 -> "7" [] i = 8 -> "8" [] i = 9 -> "9"]
IdxCell(i) == IF i < 0 THEN <<"-", DigitChar[0 - i]>> ELSE <<DigitChar[i]>>

\* the index columns of n rows: ascending from 0, descending to 0, with
\* gaps, not starting at 0, one index repeated, starting below 0
IndexSeqs(n) ==
  { [i \in 1..n |-> i - 1], [i \in 1..n |-> n - i], [i \in 1..n |-> 2 * (i - 1)],
    [i \in 1..n |-> i], [i \in 1..n |-> 0], [i \in 1..n |-> i - 2] }

Label == <<"d">>
Half == <<"0", ".", "5">>
Quarter == <<"0", ".", "2", "5">>

\* topic-document rows: docIndex, label, (topicIndex, weight)*, and the empty
\* cell MALLET's trailing tab leaves
TdVariants == {"none", "a", "ab", "b", "dup", "high", "neg", "bad", "short"}
TdCells(v) ==
  CASE v = "none" -> << <<>> >>
    [] v = "a" -> << <<"0">>, <<"1">>, <<>> >>
    [] v = "ab" -> << <<"0">>, Half, <<"1">>, Half, <<>> >>
    [] v = "b" -> << <<"1">>, Quarter >>
    [] v = "dup" -> << <<"0">>, Half, <<"0">>, Quarter, <<>> >>
    [] v = "high" -> << <<"2">>, Half, <<>> >>
    [] v = "neg" -> << <<"-", "1">>, Half, <<>> >>
    [] v = "bad" -> << <<"x">>, Half, <<>> >>
    [] v = "short" -> <<>>
TdRow(i, v) == IF v = "short" THEN <<IdxCell(i)>> ELSE <<IdxCell(i), Label>> \o TdCells(v)
TdHeader == << <<"#", "d", "o", "c">>, <<"n", "a", "m", "e">> >>
TdSound == {"none", "a", "ab", "b", "dup"}
TdPlain == {"a", "ab"}
\* the first data row is any variant, the second converts and stores, the
\* later ones list each topic at most once
TdVariantSeqs(n) ==
  {vs \in [1..n -> TdVariants] : \A i \in 2..n : vs[i] \in (IF i = 2 THEN TdSound ELSE TdPlain)}
TopDocFiles ==
  {NoFile, File(<<>>)} \cup
  UNION { { File(<<TdHeader>> \o [i \in 1..n |-> TdRow(idx[i], vs[i])]) :
              idx \in IndexSeqs(n), vs \in TdVariantSeqs(n) } : n \in 0..MaxRows }

\* word-topic rows: wordIndex, label, "topicIndex:count"*
WtVariants == {"none", "a1", "a4", "ab", "neg", "high", "bad"}
WtCells(v) ==
  CASE v = "none" -> <<>>
    [] v = "a1" -> << <<"0", ":", "1">> >>
    [] v = "a4" -> << <<"0", ":", "4">> >>
    [] v = "ab" -> << <<"0", ":", "1">>, <<"1", ":", "1">> >>
    [] v = "neg" -> << <<"-", "1", ":", "1">> >>
    [] v = "high" -> << <<"2", ":", "1">> >>
    [] v = "bad" -> << <<"x", ":", "1">> >>
WtRow(i, v) == <<IdxCell(i), <<"w">>>> \o WtCells(v)
WtSound == {"none", "a1", "a4", "ab"}
WtPlain == {"a1", "a4"}
\* the first row is any variant, the second converts and stores, the later
\* ones count for topic 0
WtVariantSeqs(n) ==
  {vs \in [1..n -> WtVariants] : \A i \in 2..n : vs[i] \in (IF i = 2 THEN WtSound ELSE WtPlain)}
WordTopFiles ==
  {NoFile} \cup
  UNION { { File([i \in 1..n |-> WtRow(idx[i], vs[i])]) :
              idx \in IndexSeqs(n), vs \in WtVariantSeqs(n) } : n \in 0..MaxWords }

\* topic-keys rows: topicIndex, weight, keywords joined by blanks
TkRows ==
  { <<ix, c[1], c[2]>> : ix \in {<<"0">>, <<"1">>, <<"0", "1">>},
                         c \in { <<Half, <<"a", " ", "b">>>>, <<<<"1">>, <<"c">>>> } }
  \cup { << <<"x">>, Half, <<"a">> >>, << <<"0">>, <<"x">>, <<"a">> >>, << <<"0">>, Half >> }
TopicKeysFiles ==
  {NoFile} \cup UNION { { File(rs) : rs \in [1..n -> TkRows] } : n \in 0..MaxRows }

\* metadata rows: docIndex, externalKey, ...
MdRows ==
  { <<ix, k>> : ix \in {<<"0">>, <<"1">>, <<"0", "1">>}, k \in {<<"p">>, <<"q">>} }
  \cup { << <<"0">>, <<"r">>, <<"z">> >>, << <<"x">>, <<"p">> >>, << <<"0">> >> }
MdHeader == << <<"i", "d">>, <<"d", "o", "i">> >>
MetadataArgs ==
  {NoArg, Arg(NoFile), Arg(File(<<>>))} \cup
  UNION { { Arg(File(<<MdHeader>> \o rs)) : rs \in [1..n -> MdRows] } : n \in 0..MaxRows }

DefTopDoc == File(<<TdHeader, TdRow(0, "a")>>)
DefWordTop == File(<<WtRow(0, "a1")>>)
DefTopicKeys == File(<< << <<"0">>, Half, <<"a", " ", "b">> >> >>)

\* the calls of load: one source varies over its files, the others are a
\* one-row file each
Calls ==
  { [top_doc |-> x, word_top |-> DefWordTop, topic_keys |-> DefTopicKeys, metadata |-> NoArg] :
      x \in TopDocFiles }
  \cup { [top_doc |-> DefTopDoc, word_top |-> x, topic_keys |-> DefTopicKeys, metadata |-> NoArg] :
      x \in WordTopFiles }
  \cup { [top_doc |-> DefTopDoc, word_top |-> DefWordTop, topic_keys |-> x, metadata |-> NoArg] :
      x \in TopicKeysFiles }
  \cup { [top_doc |-> DefTopDoc, word_top |-> DefWordTop, topic_keys |-> DefTopicKeys, metadata |-> x] :
      x \in MetadataArgs }

(***************************************************************************)
(* State.                                                                  *)
(***************************************************************************)
VARIABLES
  top_doc, word_top, topic_keys, metadata, Z,  \* the arguments of load
  pc,          \* where control is
  f,           \* the open file handles, by the stage that opened them
  opened,      \* how often each stage has called open()
  lines, li,   \* the rows the current loop runs over, and its position
  documents, words,   \* the dicts of _handle_top_doc and _handle_word_top
  td, wt, tk, md,     \* the result each stage builds and returns
  todo,        \* the keys iteritems() has yet to yield
  bound,       \* the locals of load that have been assigned
  exc,         \* the exception in flight, "None" when there is none
  ldamodel     \* what load has returned

vars == <<top_doc, word_top, topic_keys, metadata, Z, pc, f, opened, lines, li,
          documents, words, td, wt, tk, md, todo, bound, exc, ldamodel>>

Stages == {"top_doc", "word_top", "topic_keys", "metadata"}
NoModel == [built |-> FALSE]

Init ==
  \E c \in Calls, z \in 1..MaxZ :
    /\ top_doc = c.top_doc /\ word_top = c.word_top /\ topic_keys = c.topic_keys
    /\ metadata = c.metadata /\ Z = z
    /\ pc = "load"
    /\ f = {} /\ opened = [s \in Stages |-> 0]
    /\ lines = <<>> /\ li = 1
    /\ documents = EmptyDict /\ words = EmptyDict
    /\ td = Zeros(0, 0) /\ wt = Zeros(0, 0) /\ tk = EmptyDict /\ md = EmptyDict
    /\ todo = {} /\ bound = {} /\ exc = "None" /\ ldamodel = NoModel

inputs == <<top_doc, word_top, topic_keys, metadata, Z>>

\* with open(path) as f: open() raises IOError when there is no file
Open(stage, file, next) ==
  /\ opened' = [opened EXCEPT ![stage] = @ + 1]
  /\ IF file.exists
       THEN f' = f \cup {stage} /\ pc' = next /\ exc' = exc
       ELSE f' = f /\ pc' = "raised" /\ exc' = "IOError"

\* Exit with the exception swallowed: control goes on as if nothing was raised
ExitSwallow(stage, next) ==
  /\ f' = f \ {stage}
  /\ pc' = next

\* Exit without the close on the exception path (an open() with no with block)
ExitLeak(stage, next) ==
  /\ f' = IF exc = "None" THEN f \ {stage} ELSE f
  /\ pc' = IF exc = "None" THEN next ELSE "raised"

\* leaving the with block, normally or with the exception in flight: the
\* handle is closed, then control goes on or the exception propagates
Exit(stage, next) ==
  /\ f' = f \ {stage}
  /\ pc' = IF exc = "None" THEN next ELSE "raised"

(***************************************************************************)
(* load, line 38, and _handle_top_doc                                      *)
(***************************************************************************)
Load ==
  /\ pc = "load"
  /\ pc' = "td_open"
  /\ documents' = EmptyDict
  /\ UNCHANGED <<inputs, f, opened, lines, li, words, td, wt, tk, md, todo, bound, exc, ldamodel>>

TdOpen ==
  /\ pc = "td_open"
  /\ Open("top_doc", top_doc, "td_read")
  /\ UNCHANGED <<inputs, lines, li, documents, words, td, wt, tk, md, todo, bound, ldamodel>>

\* lines = [ line for line in reader ][1:]
TdRead ==
  /\ pc = "td_read"
  /\ lines' = IF top_doc.rows = <<>> THEN <<>> ELSE Tail(top_doc.rows)
  /\ li' = 1
  /\ pc' = "td_line"
  /\ UNCHANGED <<inputs, f, opened, documents, words, td, wt, tk, md, todo, bound, exc, ldamodel>>

TdLine ==
  /\ pc = "td_line"
  /\ IF li > Len(lines)
       THEN /\ pc' = "td_exit"
            /\ UNCHANGED <<li, documents, exc>>
       ELSE LET r == TdConvert(lines[li])
            IN IF r.err = "None"
                 THEN /\ documents' = Put(documents, r.key, r.val)
                      /\ li' = li + 1
                      /\ UNCHANGED <<pc, exc>>
                 ELSE /\ exc' = r.err
                      /\ pc' = "td_exit"
                      /\ UNCHANGED <<li, documents>>
  /\ UNCHANGED <<inputs, f, opened, lines, words, td, wt, tk, md, todo, bound, ldamodel>>

TdExit ==
  /\ pc = "td_exit"
  /\ Exit("top_doc", "td_zeros")
  /\ UNCHANGED <<inputs, opened, lines, li, documents, words, td, wt, tk, md, todo, bound, exc, ldamodel>>

\* td = np.zeros( (len(documents), Z) )
TdZeros ==
  /\ pc = "td_zeros"
  /\ td' = Zeros(Cardinality(DOMAIN documents), Z)
  /\ todo' = DOMAIN documents
  /\ pc' = "td_scatter"
  /\ UNCHANGED <<inputs, f, opened, lines, li, documents, words, wt, tk, md, bound, exc, ldamodel>>

\* for d, value in documents.iteritems(): ...; return td
TdScatter ==
  /\ pc = "td_scatter"
  /\ IF todo = {}
       THEN /\ pc' = "wt_open"
            /\ bound' = bound \cup {"td"}
            /\ words' = EmptyDict
            /\ UNCHANGED <<td, todo, exc>>
       ELSE \E d \in todo :
              LET r == TdScatterDoc(td, Cardinality(DOMAIN documents), Z, d, documents[d][2])
              IN IF r.ok
                   THEN /\ td' = r.a
                        /\ todo' = todo \ {d}
                        /\ UNCHANGED <<pc, exc, bound, words>>
                   ELSE /\ exc' = "IndexError"
                        /\ pc' = "raised"
                        /\ UNCHANGED <<td, todo, bound, words>>
  /\ UNCHANGED <<inputs, f, opened, lines, li, documents, wt, tk, md, ldamodel>>

(***************************************************************************)
(* _handle_word_top                                                        *)
(***************************************************************************)
WtOpen ==
  /\ pc = "wt_open"
  /\ Open("word_top", word_top, "wt_line")
  /\ lines' = word_top.rows
  /\ li' = 1
  /\ UNCHANGED <<inputs, documents, words, td, wt, tk, md, todo, bound, ldamodel>>

WtLine ==
  /\ pc = "wt_line"
  /\ IF li > Len(lines)
       THEN /\ pc' = "wt_exit"
            /\ UNCHANGED <<li, words, exc>>
       ELSE LET r == WtConvert(lines[li])
            IN IF r.err = "None"
                 THEN /\ words' = Put(words, r.key, r.val)
                      /\ li' = li + 1
                      /\ UNCHANGED <<pc, exc>>
                 ELSE /\ exc' = r.err
                      /\ pc' = "wt_exit"
                      /\ UNCHANGED <<li, words>>
  /\ UNCHANGED <<inputs, f, opened, lines, documents, td, wt, tk, md, todo, bound, ldamodel>>

WtExit ==
  /\ pc = "wt_exit"
  /\ Exit("word_top", "wt_zeros")
  /\ UNCHANGED <<inputs, opened, lines, li, documents, words, td, wt, tk, md, todo, bound, exc, ldamodel>>

\* wt = np.zeros((Z, len(words)))
WtZeros ==
  /\ pc = "wt_zeros"
  /\ wt' = Zeros(Z, Cardinality(DOMAIN words))
  /\ todo' = DOMAIN words
  /\ pc' = "wt_scatter"
  /\ UNCHANGED <<inputs, f, opened, lines, li, documents, words, td, tk, md, bound, exc, ldamodel>>

WtScatter ==
  /\ pc = "wt_scatter"
  /\ IF todo = {}
       THEN /\ pc' = "wt_normalize"
            /\ UNCHANGED <<wt, todo, exc>>
       ELSE \E w \in todo : \E ord \in Orders(DOMAIN words[w][2]) :
              LET r == WtScatterWord(wt, Z, Cardinality(DOMAIN words), w, words[w][2], ord)
              IN IF r.ok
                   THEN /\ wt' = r.a
                        /\ todo' = todo \ {w}
                        /\ UNCHANGED <<pc, exc>>
                   ELSE /\ exc' = "IndexError"
                        /\ pc' = "raised"
                        /\ UNCHANGED <<wt, todo>>
  /\ UNCHANGED <<inputs, f, opened, lines, li, documents, words, td, tk, md, bound, ldamodel>>

\* the normalization loop; return wt
WtNormalize ==
  /\ pc = "wt_normalize"
  /\ wt' = Normalize(wt)
  /\ bound' = bound \cup {"wt"}
  /\ tk' = EmptyDict
  /\ pc' = "tk_open"
  /\ UNCHANGED <<inputs, f, opened, lines, li, documents, words, td, md, todo, exc, ldamodel>>

(***************************************************************************)
(* _handle_topic_keys                                                      *)
(***************************************************************************)
TkOpen ==
  /\ pc = "tk_open"
  /\ Open("topic_keys", topic_keys, "tk_line")
  /\ lines' = topic_keys.rows
  /\ li' = 1
  /\ UNCHANGED <<inputs, documents, words, td, wt, tk, md, todo, bound, ldamodel>>

TkLine ==
  /\ pc = "tk_line"
  /\ IF li > Len(lines)
       THEN /\ pc' = "tk_exit"
            /\ UNCHANGED <<li, tk, exc>>
       ELSE LET r == TkConvert(lines[li])
            IN IF r.err = "None"
                 THEN /\ tk' = Put(tk, r.key, r.val)
                      /\ li' = li + 1
                      /\ UNCHANGED <<pc, exc>>
                 ELSE /\ exc' = r.err
                      /\ pc' = "tk_exit"
                      /\ UNCHANGED <<li, tk>>
  /\ UNCHANGED <<inputs, f, opened, lines, documents, words, td, wt, md, todo, bound, ldamodel>>

\* leaving the with block; return tk; load, lines 40-45
TkExit ==
  /\ pc = "tk_exit"
  /\ Exit("topic_keys", IF metadata.given THEN "md_open" ELSE "build")
  /\ bound' = IF exc /= "None" THEN bound
              ELSE IF metadata.given THEN bound \cup {"tk"} ELSE bound \cup {"tk", "md"}
  /\ md' = EmptyDict
  /\ UNCHANGED <<inputs, opened, lines, li, documents, words, td, wt, tk, todo, exc, ldamodel>>

(***************************************************************************)
(* _handle_metadata                                                        *)
(***************************************************************************)
MdOpen ==
  /\ pc = "md_open"
  /\ Open("metadata", metadata.file, "md_read")
  /\ UNCHANGED <<inputs, lines, li, documents, words, td, wt, tk, md, todo, bound, ldamodel>>

\* lines = [ l for l in reader ][1:]
MdRead ==
  /\ pc = "md_read"
  /\ lines' = IF metadata.file.rows = <<>> THEN <<>> ELSE Tail(metadata.file.rows)
  /\ li' = 1
  /\ pc' = "md_line"
  /\ UNCHANGED <<inputs, f, opened, documents, words, td, wt, tk, md, todo, bound, exc, ldamodel>>

MdLine ==
  /\ pc = "md_line"
  /\ IF li > Len(lines)
       THEN /\ pc' = "md_exit"
            /\ UNCHANGED <<li, md, exc>>
       ELSE LET r == MdConvert(lines[li])
            IN IF r.err = "None"
                 THEN /\ md' = Put(md, r.key, r.val)
                      /\ li' = li + 1
                      /\ UNCHANGED <<pc, exc>>
                 ELSE /\ exc' = r.err
                      /\ pc' = "md_exit"
                      /\ UNCHANGED <<li, md>>
  /\ UNCHANGED <<inputs, f, opened, lines, documents, words, td, wt, tk, todo, bound, ldamodel>>

MdExit ==
  /\ pc = "md_exit"
  /\ Exit("metadata", "build")
  /\ bound' = IF exc = "None" THEN bound \cup {"md"} ELSE bound
  /\ UNCHANGED <<inputs, opened, lines, li, documents, words, td, wt, tk, md, todo, exc, ldamodel>>

(***************************************************************************)
(* load, lines 47-49: ldamodel = LDAModel(td, wt, tk, md); return ldamodel *)
(***************************************************************************)
LDAModel(a, b, c, d) == [built |-> TRUE, td |-> a, wt |-> b, tk |-> c, md |-> d]

Return ==
  /\ pc = "build"
  /\ ldamodel' = LDAModel(td, wt, tk, [given |-> metadata.given, map |-> md])
  /\ pc' = "returned"
  /\ UNCHANGED <<inputs, f, opened, lines, li, documents, words, td, wt, tk, md, todo, bound, exc>>

Next ==
  \/ Load
  \/ TdOpen \/ TdRead \/ TdLine \/ TdExit \/ TdZeros \/ TdScatter
  \/ WtOpen \/ WtLine \/ WtExit \/ WtZeros \/ WtScatter \/ WtNormalize
  \/ TkOpen \/ TkLine \/ TkExit
  \/ MdOpen \/ MdRead \/ MdLine \/ MdExit
  \/ Return

Spec == Init /\ [][Next]_vars

(***************************************************************************)
(* Properties.                                                             *)
(***************************************************************************)
Final == pc \in {"returned", "raised"}

\* the stage an exception propagating out of load was raised in: the last
\* stage that was entered
RaisedIn(stage) ==
  /\ pc = "raised"
  /\ CASE stage = "top_doc" -> opened["word_top"] = 0
       [] stage = "word_top" -> opened["word_top"] = 1 /\ opened["topic_keys"] = 0
       [] stage = "topic_keys" -> opened["topic_keys"] = 1 /\ opened["metadata"] = 0
       [] stage = "metadata" -> opened["metadata"] = 1

\* what holds of the Model in every state
C1_Inv ==
  /\ ldamodel.built =>
       /\ pc = "returned" /\ exc = "None"
       /\ bound = {"td", "wt", "tk", "md"}
       /\ opened = [s \in Stages |-> IF s = "metadata" /\ ~metadata.given THEN 0 ELSE 1]
       /\ ldamodel = LDAModel(td, wt, tk, [given |-> metadata.given, map |-> md])
  /\ pc = "returned" => ldamodel.built
  /\ pc = "raised" => exc /= "None"
  /\ exc /= "None" => ~ldamodel.built

\* C1: load is all-or-nothing.  A Model exists only once load has returned,
\* with no exception raised and every stage completed (the metadata stage
\* when a path was given), and it holds what the stages returned; once a
\* stage has raised, the exception stays as raised and no Model is ever
\* returned.
C1_AllOrNothing ==
  [](C1_Inv) /\ [][exc /= "None" => (exc' = exc /\ pc' = "raised" /\ ~ldamodel'.built)]_vars

\* a later stage raised after two stages had returned their results
C1_Witness == pc = "raised" /\ bound = {"td", "wt"} /\ exc = "ValueError" /\ ~ldamodel.built

\* the positions inside the with block of a stage; the stage has been entered
WithBlock(stage) ==
  CASE stage = "top_doc" -> {"td_read", "td_line", "td_exit"}
    [] stage = "word_top" -> {"wt_line", "wt_exit"}
    [] stage = "topic_keys" -> {"tk_line", "tk_exit"}
    [] stage = "metadata" -> {"md_read", "md_line", "md_exit"}
Entered(stage) ==
  CASE stage = "top_doc" -> pc \notin {"load", "td_open"}
    [] stage = "word_top" -> "td" \in bound /\ pc /= "wt_open"
    [] stage = "topic_keys" -> "wt" \in bound /\ pc /= "tk_open"
    [] stage = "metadata" -> "tk" \in bound /\ metadata.given /\ pc /= "md_open"

\* C8: file handles are scoped.  A stage calls open() once, at most one
\* handle is open at a time, a handle is open only while control is inside
\* the with block of the stage that opened it, and none is open once load has
\* returned or the exception has left it.
C8_HandlesScoped ==
  /\ Cardinality(f) <= 1
  /\ \A s \in Stages :
       /\ opened[s] <= 1
       /\ s \in f <=> pc \in WithBlock(s)
       /\ ~RaisedIn(s) => (opened[s] = 1 <=> Entered(s))
       /\ RaisedIn(s) => opened[s] = 1
  /\ Final => f = {}

\* a conversion error inside the with block of the word-topic stage has left
\* load, and the handle is closed
C8_Witness ==
  pc = "raised" /\ exc = "ValueError" /\ RaisedIn("word_top") /\ li = 1 /\ f = {}

(***************************************************************************)
(* What the sources say, read off the rows.                                *)
(***************************************************************************)
TdData == IF top_doc.rows = <<>> THEN <<>> ELSE Tail(top_doc.rows)
MdData == IF metadata.file.rows = <<>> THEN <<>> ELSE Tail(metadata.file.rows)

\* the last row of rows whose column 0 reads as the index k
LastRow(rows, k) ==
  rows[CHOOSE i \in 1..Len(rows) :
         /\ ParseInt(rows[i][1]).v = k
         /\ \A j \in (i + 1)..Len(rows) : ParseInt(rows[j][1]).v /= k]
Indices(rows) == {ParseInt(rows[i][1]).v : i \in 1..Len(rows)}

\* a topic-keys row and a metadata row of the shape their source prescribes
TkShaped(l) == Len(l) >= 3 /\ ParseInt(l[1]).ok /\ ParseFloat(l[2]).ok
MdShaped(l) == Len(l) >= 2 /\ ParseInt(l[1]).ok
TkAllShaped == \A i \in 1..Len(topic_keys.rows) : TkShaped(topic_keys.rows[i])
MdAllShaped == \A i \in 1..Len(MdData) : MdShaped(MdData[i])

\* C6: the topic-keys and metadata maps are last-write-wins.  When every row
\* of the file has its source's shape the stage does not raise (a repeated
\* index is no error), and the map in the Model has one entry for each index
\* that column 0 of a data row reads as, built from the last row with that
\* index alone: (weight, keywords) for topic keys, column 1 for metadata.
C6_LastWriteWins ==
  /\ RaisedIn("topic_keys") => ~(topic_keys.exists /\ TkAllShaped)
  /\ RaisedIn("metadata") => ~(metadata.file.exists /\ MdAllShaped)
  /\ pc = "returned" =>
       /\ DOMAIN ldamodel.tk = Indices(topic_keys.rows)
       /\ \A k \in DOMAIN ldamodel.tk :
            ldamodel.tk[k] = << ParseFloat(LastRow(topic_keys.rows, k)[2]).v,
                                SplitWS(LastRow(topic_keys.rows, k)[3], <<>>) >>
       /\ ldamodel.md.given = metadata.given
       /\ DOMAIN ldamodel.md.map = Indices(MdData)
       /\ \A k \in DOMAIN ldamodel.md.map : ldamodel.md.map[k] = LastRow(MdData, k)[2]

\* two topic-keys rows with the same index ("1" and "01") and different
\* content have been read and load has returned
C6_Witness ==
  /\ pc = "returned"
  /\ Len(topic_keys.rows) = 2
  /\ topic_keys.rows[1][1] /= topic_keys.rows[2][1]
  /\ topic_keys.rows[1][2] /= topic_keys.rows[2][2]
  /\ DOMAIN ldamodel.tk = {1}

\* a topic-document row of the shape its source prescribes; its document
\* index; its pairs (the trailing unpaired cell is not one)
TdShaped(r) ==
  /\ Len(r) >= 2 /\ ParseInt(r[1]).ok
  /\ \A j \in 1..NPairs(Drop2(r)) :
       ParseInt(Drop2(r)[(2 * j) - 1]).ok /\ ParseFloat(Drop2(r)[2 * j]).ok
TdAllShaped == \A i \in 1..Len(TdData) : TdShaped(TdData[i])
PairTopic(r, j) == ParseInt(Drop2(r)[(2 * j) - 1])
PairWeight(r, j) == ParseFloat(Drop2(r)[2 * j])
ListsHigh(r) == \E j \in 1..NPairs(Drop2(r)) : PairTopic(r, j).ok /\ PairTopic(r, j).v >= Z
ListsOnly(r, S) == \A j \in 1..NPairs(Drop2(r)) : PairTopic(r, j).v \in S
Distinct(rows) ==
  \A i, j \in 1..Len(rows) : i /= j => ParseInt(rows[i][1]).v /= ParseInt(rows[j][1]).v

\* the weight the last pair of row r that lists topic t carries, 0 when r
\* lists no pair for t
LastWeight(r, t) ==
  LET js == {j \in 1..NPairs(Drop2(r)) : PairTopic(r, j).v = t}
  IN IF js = {} THEN FZero
     ELSE PairWeight(r, CHOOSE j \in js : \A m \in js : m <= j).v

HighSurvivor ==
  \E i \in 1..Len(TdData) :
    /\ ListsHigh(TdData[i])
    /\ TdAllShaped =>
         \A j \in (i + 1)..Len(TdData) : ParseInt(TdData[j][1]).v /= ParseInt(TdData[i][1]).v

TdFormed ==
  /\ top_doc.exists /\ TdAllShaped /\ Distinct(TdData)
  /\ \A i \in 1..Len(TdData) :
       ParseInt(TdData[i][1]).v >= 0 /\ ListsOnly(TdData[i], 0..(Z - 1))
MaxDoc == IF TdData = <<>> THEN 0 - 1
          ELSE CHOOSE m \in Indices(TdData) : \A k \in Indices(TdData) : k <= m

\* C3: for every well-formed topic-document input, gaps in the document
\* indices included, _handle_top_doc returns a matrix of (max document
\* index + 1) rows and Z columns with the pairs of document d stored in row d.
C3_RowPerDocumentIndex ==
  ((pc = "wt_open" \/ RaisedIn("top_doc")) /\ TdFormed) =>
    /\ pc = "wt_open"
    /\ DOMAIN td = 0..MaxDoc
    /\ \A i \in 1..Len(TdData) : \A t \in 0..(Z - 1) :
         td[ParseInt(TdData[i][1]).v][t] = LastWeight(TdData[i], t)

\* and the document indices are 0..N-1
TdExact == TdFormed /\ Indices(TdData) = 0..(Len(TdData) - 1)

WtData == word_top.rows
TokParts(r, j) == SplitOn(Drop2(r)[j], ":", <<>>)
TokTopic(r, j) == ParseInt(TokParts(r, j)[1])
\* a word-topic row of the shape its source prescribes: wordIndex, label and
\* tokens "topicIndex:count" with an unsigned integer count
WtShaped(r) ==
  /\ Len(r) >= 2 /\ ParseInt(r[1]).ok
  /\ \A j \in 1..Len(Drop2(r)) :
       /\ Len(TokParts(r, j)) = 2
       /\ TokTopic(r, j).ok /\ AllDigits(TokParts(r, j)[2])
WtAllShaped == \A i \in 1..Len(WtData) : WtShaped(WtData[i])
Topics(r) == {TokTopic(r, j).v : j \in 1..Len(Drop2(r))}

\* the count row r gives topic tt: that of its last token for tt, 0 when it
\* has none
CountOf(r, tt) ==
  LET js == {j \in 1..Len(Drop2(r)) : TokTopic(r, j).v = tt}
  IN IF js = {} THEN 0
     ELSE DecVal(TokParts(r, CHOOSE j \in js : \A m \in js : m <= j)[2], 0)

\* the sum of the counts the first n rows give topic t, as an integer
RECURSIVE RawTotal(_, _)
RawTotal(t, n) == IF n = 0 THEN 0 ELSE RawTotal(t, n - 1) + CountOf(WtData[n], t)

\* the rows no later row supersedes, and the number of columns of the matrix
Surviving(rows) ==
  {i \in 1..Len(rows) :
     \A j \in (i + 1)..Len(rows) : ParseInt(rows[j][1]).v /= ParseInt(rows[i][1]).v}
NumWords == Cardinality(Indices(WtData))

\* well-formed word-topic input: every row has the shape, no word index is
\* negative or carried by two rows, every topic index is in 0..Z-1
WtFormed ==
  /\ word_top.exists /\ WtAllShaped /\ Distinct(WtData)
  /\ \A i \in 1..Len(WtData) :
       ParseInt(WtData[i][1]).v >= 0 /\ Topics(WtData[i]) \subseteq 0..(Z - 1)
\* and the word indices are 0..numWords-1
WtExact == WtFormed /\ Indices(WtData) = 0..(Len(WtData) - 1)
NonzeroSums == \A t \in 0..(Z - 1) : RawTotal(t, Len(WtData)) > 0

\* the quotient count(t, word of row i) / raw sum of topic t, on float64
Quotient(t, i) == FDiv(FromNat(CountOf(WtData[i], t)), FromNat(RawTotal(t, Len(WtData))))

\* |s - 1| <= n * 2^-53
Within(s, n) ==
  /\ s.k = "num"
  /\ \/ s.e = 0 /\ s.hi = Limb /\ 2 * s.lo <= n
     \/ s.e = 0 - 1 /\ s.hi = (2 * Limb) - 1 /\ Limb - s.lo <= n

\* C5 as stated: for well-formed input (word indices 0..numWords-1) with
\* nonzero raw sums, every row of the returned matrix sums to exactly 1 and
\* normalizing the result again leaves it unchanged.
C5_RowsSumToOne ==
  (pc = "tk_open" /\ WtExact /\ NonzeroSums) =>
    /\ \A t \in 0..(Z - 1) : NpSum(wt[t]) = FOne
    /\ Normalize(wt) = wt

\* C5 as amended: for the same inputs the stage returns the Z x numWords
\* matrix whose entry [t,w] is the float64 quotient of count(t,w) by the sum
\* of topic t's counts; the float64 sum of a row is 1 to within
\* numWords * 2^-53, not always 1; normalizing a row again leaves it
\* unchanged when its float64 sum is exactly 1.
C5_RowsSumToAboutOne ==
  /\ (RaisedIn("word_top") \/ pc = "tk_open") /\ WtExact => pc = "tk_open"
  /\ (pc = "tk_open" /\ WtExact /\ NonzeroSums) =>
       /\ DOMAIN wt = 0..(Z - 1)
       /\ \A t \in 0..(Z - 1) :
            /\ DOMAIN wt[t] = 0..(Len(WtData) - 1)
            /\ \A i \in 1..Len(WtData) : wt[t][ParseInt(WtData[i][1]).v] = Quotient(t, i)
            /\ Within(NpSum(wt[t]), Len(WtData))
            /\ NpSum(wt[t]) = FOne => DivRow(wt[t], NpSum(wt[t])) = wt[t]

\* the stage has returned a row of three quotients whose float64 sum is not 1
C5_Witness ==
  /\ pc = "tk_open" /\ WtExact /\ NonzeroSums /\ Len(WtData) = 3
  /\ \E t \in 0..(Z - 1) : NpSum(wt[t]) /= FOne /\ Within(NpSum(wt[t]), 3)

\* C7 as stated: for well-formed input, whatever the values of the word
\* indices, the stage returns and the k-th row of the source (its k-th
\* distinct word, counting from 0) occupies column k.
C7_ColumnIsOrdinal ==
  ((pc = "tk_open" \/ RaisedIn("word_top")) /\ WtFormed) =>
    /\ pc = "tk_open"
    /\ \A t \in 0..(Z - 1) : \A i \in 1..Len(WtData) : wt[t][i - 1] = Quotient(t, i)

\* the values the scatter may leave in entry [t,c]: the counts of the
\* surviving rows whose word index selects column c, for the topic indices
\* that select row t
Stored(t, c) ==
  {FromNat(CountOf(WtData[i], tt)) :
     <<i, tt>> \in {x \in Surviving(WtData) \X UNION {Topics(WtData[i]) : i \in 1..Len(WtData)} :
                     /\ x[2] \in Topics(WtData[x[1]])
                     /\ NpIdx(x[2], Z) = t
                     /\ NpIdx(ParseInt(WtData[x[1]][1]).v, NumWords) = c}}
\* a surviving row with a token whose word or topic index selects nothing
Unplaced ==
  \E i \in Surviving(WtData) : \E tt \in Topics(WtData[i]) :
    NpIdx(tt, Z) < 0 \/ NpIdx(ParseInt(WtData[i][1]).v, NumWords) < 0

\* C7 as amended: the column of a word is its numeric word index w, as an
\* index into the numWords columns (numWords the number of distinct word
\* indices): column w for 0 <= w < numWords, column w + numWords for
\* -numWords <= w < 0, whatever the order of the rows.  When every row has
\* the shape, the stage raises exactly when a row that no later row
\* supersedes has a token whose word index or topic index is outside these
\* ranges, and then with IndexError; otherwise every entry of the matrix
\* before normalization is a count stored for its row and column, 0 when
\* there is none.
C7_ColumnIsWordIndex ==
  (word_top.exists /\ WtAllShaped) =>
    /\ RaisedIn("word_top") => exc = "IndexError" /\ Unplaced
    /\ pc = "wt_normalize" =>
         /\ ~Unplaced
         /\ DOMAIN wt = 0..(Z - 1)
         /\ \A t \in 0..(Z - 1) :
              /\ DOMAIN wt[t] = 0..(NumWords - 1)
              /\ \A c \in 0..(NumWords - 1) :
                   IF Stored(t, c) = {} THEN wt[t][c] = FZero ELSE wt[t][c] \in Stored(t, c)

\* the first row of the source carries word index 1 and count 4, the second
\* word index 0 and count 1: the scatter has put the first word in column 1
C7_Witness ==
  /\ pc = "wt_normalize" /\ WtFormed /\ Len(WtData) = 2
  /\ ParseInt(WtData[1][1]).v = 1 /\ ParseInt(WtData[2][1]).v = 0
  /\ CountOf(WtData[1], 0) = 4 /\ CountOf(WtData[2], 0) = 1
  /\ wt[0][1] = FromNat(4) /\ wt[0][0] = FromNat(1)

C10_OnlyInRangeReturns ==
  ldamodel.built =>
    /\ \A i \in 1..Len(TdData) : \A j \in 1..NPairs(Drop2(TdData[i])) :
         PairTopic(TdData[i], j).v \in 0..(Z - 1)
    /\ \A i \in 1..Len(WtData) : Topics(WtData[i]) \subseteq 0..(Z - 1)
====
